---- MODULE Spec2Model ----
(***************************************************************************)
(* FreshService ticket scraper (src/src/scrape-freshservice.py).           *)
(*                                                                         *)
(* main() builds the id range, cuts it into partitions, runs one           *)
(* process_partition per partition on a thread pool and finally counts the *)
(* exported files.  process_partition walks its ids in order; for each id  *)
(* process_ticket calls fetch_ticket (up to 5 attempts, backoff on 429)    *)
(* and, when the response carries a ticket, create_directory_structure and *)
(* save_ticket.                                                            *)
(***************************************************************************)
EXTENDS Integers, Sequences, FiniteSets, TLC

\* ---------------------------------------------------------------- bounds
\* Environment ranges of the concurrent run.
MaxStart == 1
MaxLen == 2
MaxN == 2
\* Environment ranges of the run on a pool of one thread.
MaxStartS == 1
MaxLenS == 3
\* Environment ranges of the partitioning study (main's prefix only).
MaxStartP == 5
MaxLenP == 10
MaxNP == 4

\* The pool specification: ranges 1..end of at most MaxLenPool ids, at most
\* MaxNPool partitions asked for.
MaxLenPool == 3
MaxNPool == 2

VARIABLES
    start_ticket_id,    \* int(os.getenv("START_TICKET_ID"))
    end_ticket_id,      \* int(os.getenv("END_TICKET_ID"))
    number_partitions,  \* int(os.getenv("NUMBER_PARTITIONS"))
    mainpc,             \* position of main()
    exit_status,        \* "running", 0 (main returned) or 1 (main raised)
    partitions,         \* the list built at lines 127-130
    queue,              \* the executor's work queue: submitted, not yet started
    worker,             \* per partition: the process_partition call and its locals
    collected,          \* futures already yielded by as_completed
    log,                \* what main logged for each collected future
    dirs,               \* directories on disk
    files,              \* files on disk: path -> the texts written since the last open
    outcome,            \* per ticket id: how process_ticket ended for it
    reported            \* the verification pass's summary

vars == <<start_ticket_id, end_ticket_id, number_partitions, mainpc,
          exit_status, partitions, queue, worker, collected, log, dirs, files,
          outcome, reported>>

config == <<start_ticket_id, end_ticket_id, number_partitions>>

\* ------------------------------------------------------------ partitioner
Min(a, b) == IF a < b THEN a ELSE b

\* list(range(lo, hi)): lo, lo+1, ..., hi-1; empty when hi <= lo.
Range(lo, hi) == IF hi <= lo THEN << >> ELSE [k \in 1..(hi - lo) |-> lo + k - 1]

\* A slice that takes one element too many.
SliceInclusive(seq, i, j) == SubSeq(seq, i + 1, Min(j + 1, Len(seq)))

\* seq[i : j] for 0 <= i <= j: the elements at 0-based positions i..j-1,
\* cut at the end of the list.
Slice(seq, i, j) == SubSeq(seq, i + 1, Min(j, Len(seq)))

\* A range that also takes the id after end.
AllTicketIdsOneMore(start, end) == Range(start, end + 2)

\* all_ticket_ids, line 120.
AllTicketIds(start, end) == Range(start, end + 1)

\* A partition size rounded up instead of down.
PartitionSizeCeil(len, n) == (len + n - 1) \div n

\* partition_size, lines 124-126.
PartitionSize(len, n) == IF len \div n = 0 THEN 1 ELSE len \div n

\* range(0, len, size) has ceil(len / size) elements 0, size, 2*size, ...
NumSlices(len, size) == (len + size - 1) \div size

\* partitions, lines 127-130.
Partition(start, end, n) ==
    LET all == AllTicketIds(start, end)
        size == PartitionSize(Len(all), n)
    IN  [p \in 1..NumSlices(Len(all), size) |->
            Slice(all, (p - 1) * size, (p - 1) * size + size)]

\* ------------------------------------------------------- remote responses
\* What client.tickets.get_ticket can hand back for an id.  The capability
\* is opaque: a response is a falsy value, the rate-limit dict, a dict
\* without a "ticket" entry, or a dict whose "ticket" entry may lack "id" or
\* "updated_at".  An absent id is written 0 (ids are positive), an absent
\* status_code 0, an absent timestamp Missing.
Missing == "<missing>"

AbsentTicket == [present |-> FALSE, id |-> 0, updated_at |-> Missing]

NoneValue == [kind |-> "none", status_code |-> 0, ticket |-> AbsentTicket]

RateLimited == [kind |-> "dict", status_code |-> 429, ticket |-> AbsentTicket]

NoTicket == [kind |-> "dict", status_code |-> 404, ticket |-> AbsentTicket]

Timestamps == {"2024-03-05T10:00:00Z", "2023-11-20T08:30:00+00:00"}

BadTimestamp == "05/03/2024"

TicketDoc(id, ts) ==
    [kind |-> "dict", status_code |-> 0,
     ticket |-> [present |-> TRUE, id |-> id, updated_at |-> ts]]

\* A document with both required fields and a well-formed timestamp.
ValidDocs(ticket_id) == {TicketDoc(ticket_id, ts) : ts \in Timestamps}

\* The documents the remote may return for ticket_id.
Documents(ticket_id) ==
    ValidDocs(ticket_id)
        \cup {TicketDoc(ticket_id, BadTimestamp), TicketDoc(ticket_id, Missing),
              TicketDoc(0, "2024-03-05T10:00:00Z")}

Responses(ticket_id) == {NoneValue, RateLimited, NoTicket} \cup Documents(ticket_id)

\* Any status code taken for the rate-limit signal.
IsRateLimitAnyStatus(r) == r.kind = "dict" /\ r.status_code # 0

\* isinstance(response, dict) and response.get("status_code") == 429, line 57.
IsRateLimit(r) == r.kind = "dict" /\ r.status_code = 429

\* response and response.get("ticket", None), line 77.
HasTicket(r) == r.kind = "dict" /\ r.ticket.present

\* ------------------------------------------------------- dates and paths
Digits == <<"0", "1", "2", "3", "4", "5", "6", "7", "8", "9">>

IsDigit(c) == \E d \in 1..10 : Digits[d] = c

DigitVal(c) == (CHOOSE d \in 1..10 : Digits[d] = c) - 1

CharAt(s, i) == SubSeq(s, i, i)

AllDigits(s) == \A i \in 1..Len(s) : IsDigit(CharAt(s, i))

\* The decimal value of the first n characters of s.
RECURSIVE ToIntUpTo(_, _)
ToIntUpTo(s, n) == IF n = 0 THEN 0
                   ELSE 10 * ToIntUpTo(s, n - 1) + DigitVal(CharAt(s, n))

ToInt(s) == ToIntUpTo(s, Len(s))

\* The characters of s from position i on, every "Z" replaced.
RECURSIVE ReplaceZFrom(_, _)
ReplaceZFrom(s, i) == IF i > Len(s) THEN ""
                      ELSE (IF CharAt(s, i) = "Z" THEN "+00:00" ELSE CharAt(s, i))
                               \o ReplaceZFrom(s, i + 1)

\* str.replace("Z", "+00:00"), line 78.
ReplaceZ(s) == ReplaceZFrom(s, 1)

IsLeap(y) == (y % 4 = 0 /\ y % 100 # 0) \/ y % 400 = 0

DaysInMonth(y, m) == IF m = 2 THEN (IF IsLeap(y) THEN 29 ELSE 28)
                     ELSE IF m \in {4, 6, 9, 11} THEN 30 ELSE 31

\* datetime.fromisoformat accepts YYYY-MM-DD followed by a time part; the
\* date fields are the only ones process_ticket reads.
IsIsoDate(s) ==
    /\ Len(s) >= 10
    /\ AllDigits(SubSeq(s, 1, 4)) /\ CharAt(s, 5) = "-"
    /\ AllDigits(SubSeq(s, 6, 7)) /\ CharAt(s, 8) = "-"
    /\ AllDigits(SubSeq(s, 9, 10))
    /\ ToInt(SubSeq(s, 1, 4)) >= 1
    /\ ToInt(SubSeq(s, 6, 7)) \in 1..12
    /\ ToInt(SubSeq(s, 9, 10)) \in 1..DaysInMonth(ToInt(SubSeq(s, 1, 4)), ToInt(SubSeq(s, 6, 7)))

\* datetime.fromisoformat(updated_at_str), line 79: the calendar fields.
FromIsoFormat(s) ==
    [year |-> ToInt(SubSeq(s, 1, 4)), month |-> ToInt(SubSeq(s, 6, 7)),
     day |-> ToInt(SubSeq(s, 9, 10))]

\* Lines 78-79 raise KeyError when "updated_at" is absent and ValueError
\* when it is not ISO-8601.
ParseRaises(r) ==
    \/ r.ticket.updated_at = Missing
    \/ \E updated_at_str \in {ReplaceZ(r.ticket.updated_at)} : ~IsIsoDate(updated_at_str)

UpdatedAt(r) ==
    CHOOSE updated_at \in {FromIsoFormat(s) : s \in {ReplaceZ(r.ticket.updated_at)}} : TRUE

\* calendar.month_name, line 29.
MonthName == <<"January", "February", "March", "April", "May", "June", "July",
               "August", "September", "October", "November", "December">>

\* f"{day:02d}", line 30.
Pad2(day) == IF day < 10 THEN "0" \o ToString(day) ELSE ToString(day)

\* A path is the sequence of its components; export_dir is the root.
ExportDir == <<"export">>

\* dir_path, line 30.
DirPath(export_dir, year, month, day) ==
    export_dir \o <<ToString(year), MonthName[month], Pad2(day)>>

\* file_path, line 40.
FilePath(dir_path, ticket) == dir_path \o <<ToString(ticket.ticket.id) \o ".json">>

\* ticket["ticket"]["id"], lines 40 and 45, raises KeyError without an id.
IdRaises(ticket) == ticket.ticket.id = 0

\* mkdir(parents=True, exist_ok=True) creates dir_path and its ancestors.
Ancestors(path) == {SubSeq(path, 1, k) : k \in 1..Len(path)}

\* json.dump(ticket, f, indent=2, ensure_ascii=False), line 42: the text
\* written for a document.
JsonText(ticket) == [json |-> ticket.ticket, indent |-> 2]

\* A file opened for appending: the text is added to what the file holds.
AppendFile(fs, file_path, text) ==
    [p \in DOMAIN fs \cup {file_path} |->
        IF p = file_path
        THEN (IF p \in DOMAIN fs THEN fs[p] ELSE << >>) \o <<text>>
        ELSE fs[p]]

\* open(file_path, "w") truncates and the dump writes one text: the file
\* holds exactly that text whatever it held before.
WriteFile(fs, file_path, text) ==
    [p \in DOMAIN fs \cup {file_path} |-> IF p = file_path THEN <<text>> ELSE fs[p]]

\* open(file_path, "w") succeeded and the dump failed: the file is left
\* truncated.
TruncateFile(fs, file_path) ==
    [p \in DOMAIN fs \cup {file_path} |-> IF p = file_path THEN << >> ELSE fs[p]]

\* ---------------------------------------------------------- fetch_ticket
\* A retry budget one short.
retriesFour == 5 - 1

\* retries, line 51.
retries == 5

RECURSIVE Pow(_, _)
Pow(b, e) == IF e = 0 THEN 1 ELSE b * Pow(b, e - 1)

\* random.random() * 5 lies in [0, 5); the ends of its whole part.
Jitter == {0, 4}

\* delay, line 58.
Delay(i, jitter) == Pow(5, i) + jitter

\* The locals of one process_partition call.  thread is the pool thread that
\* runs it, pos the 1-based index of the current id, i the loop variable of
\* fetch_ticket; calls, limited, threw and sleeps count the capability
\* calls, the rate-limit signals, the calls that raised and the time.sleep
\* calls of the current fetch_ticket;
\* ft_response is the capability's last response, response what
\* fetch_ticket returned and how the way it returned; raised names the
\* exception that left process_partition.  client is the FreshPy handle of
\* line 98 (0 before it is built), existed what dir_path.exists() answered
\* at line 31.
Queued ==
    [pc |-> "queued", thread |-> 0, client |-> 0, pos |-> 0, i |-> 0, calls |-> 0,
     limited |-> 0, threw |-> 0, sleeps |-> 0, delay |-> 0, ft_response |-> NoneValue,
     response |-> NoneValue, how |-> "none", dir_path |-> << >>, existed |-> FALSE,
     raised |-> "none"]

TicketId(p) == partitions[p][worker[p].pos]

\* A walk that takes every second id only.
NextTicketSkipping(w, p) ==
    IF w.pos + 1 < Len(partitions[p])
    THEN [Queued EXCEPT !.pc = "call", !.thread = w.thread, !.client = w.client,
                        !.pos = w.pos + 2]
    ELSE [Queued EXCEPT !.pc = "done", !.thread = w.thread, !.client = w.client,
                        !.pos = w.pos]

\* process_ticket returned for the current id: map() takes the next id, or
\* the partition is finished (line 101).
NextTicket(w, p) ==
    IF w.pos < Len(partitions[p])
    THEN [Queued EXCEPT !.pc = "call", !.thread = w.thread, !.client = w.client,
                        !.pos = w.pos + 1]
    ELSE [Queued EXCEPT !.pc = "done", !.thread = w.thread, !.client = w.client,
                        !.pos = w.pos]

\* An exception leaves process_ticket: map() and process_partition do not
\* catch it, the future holds it.  The frames' locals are gone; the response
\* is kept to tell what the ticket was.
Raise(w, exc) ==
    [Queued EXCEPT !.pc = "failed", !.thread = w.thread, !.client = w.client,
                   !.pos = w.pos, !.response = w.response, !.raised = exc]

\* No except clause: the exception of the call leaves fetch_ticket.
OnRaisePropagate(w) ==
    [w EXCEPT !.calls = @ + 1, !.threw = @ + 1, !.pc = "failed", !.raised = "fetch"]

\* An exception handled like a rate-limit signal: sleep and try again.
OnRaiseRetry(w) ==
    [w EXCEPT !.calls = @ + 1, !.threw = @ + 1, !.delay = Delay(w.i, 0),
              !.pc = "sleep"]

\* Lines 65-67: the call raised; the except clause logs and returns None.
OnRaise(w) ==
    [w EXCEPT !.calls = @ + 1, !.threw = @ + 1, !.response = NoneValue,
              !.how = "raised", !.pc = "fetched"]

\* Lines 57-62: the response is the rate-limit signal; compute the delay and
\* go to sleep.
OnRateLimit(w, r, jitter) ==
    [w EXCEPT !.calls = @ + 1, !.limited = @ + 1, !.ft_response = r,
              !.delay = Delay(w.i, jitter), !.pc = "sleep"]

\* Line 64: any other response is returned as it is.
OnResponse(w, r) ==
    [w EXCEPT !.calls = @ + 1, !.ft_response = r, !.response = r,
              !.how = "returned", !.pc = "fetched"]

\* Lines 54-67: what one call of the capability for ticket_id can leave in
\* the locals w.  It raises, signals rate-limit, or returns a response.
Called(w, ticket_id) ==
    {OnRaise(w)}
        \cup {IF IsRateLimit(r) THEN OnRateLimit(w, r, jitter) ELSE OnResponse(w, r) :
                 r \in Responses(ticket_id), jitter \in Jitter}

\* One call of the capability by the worker of partition p.
GetTicket(p) ==
    /\ p \in DOMAIN worker
    /\ worker[p].pc = "call"
    /\ \E w \in Called(worker[p], TicketId(p)) : worker' = [worker EXCEPT ![p] = w]
    /\ UNCHANGED <<config, mainpc, exit_status, partitions, queue, collected, log,
                   dirs, files, outcome, reported>>

\* Lines 62-63 and 68-69: time.sleep(delay) returns, the loop goes on with
\* the next i, and returns None once range(retries) is used up.  delay is
\* not read again before line 58 sets it anew, so it is dropped here.
\* A loop that starts over when its attempts are used up.
SleptStartsOver(w) ==
    IF w.i + 1 < retries
    THEN [w EXCEPT !.sleeps = @ + 1, !.i = @ + 1, !.delay = 0, !.pc = "call"]
    ELSE [w EXCEPT !.sleeps = 0, !.i = 0, !.calls = 0, !.limited = 0, !.delay = 0,
                   !.pc = "call"]

Slept(w) ==
    IF w.i + 1 < retries
    THEN [w EXCEPT !.sleeps = @ + 1, !.i = @ + 1, !.delay = 0, !.pc = "call"]
    ELSE [w EXCEPT !.sleeps = @ + 1, !.i = @ + 1, !.delay = 0, !.response = NoneValue,
                   !.how = "exhausted", !.pc = "fetched"]

\* The sleep of the worker of partition p returns.
Backoff(p) ==
    /\ p \in DOMAIN worker
    /\ worker[p].pc = "sleep"
    /\ worker' = [worker EXCEPT ![p] = Slept(worker[p])]
    /\ UNCHANGED <<config, mainpc, exit_status, partitions, queue, collected, log,
                   dirs, files, outcome, reported>>

\* Lines 49-69 as one call: the locals fetch_ticket can return with, from
\* the locals w, whatever the capability answers on the way.
RECURSIVE FetchTicket(_, _)
FetchTicket(w, ticket_id) ==
    IF w.pc = "call"
    THEN LET after == {IF c.pc = "sleep" THEN Slept(c) ELSE c : c \in Called(w, ticket_id)}
         IN  UNION {FetchTicket(c, ticket_id) : c \in after}
    ELSE {w}

\* -------------------------------------------------------- process_ticket
\* The locals w hold what fetch_ticket returned.  Lines 77-79 and 29-31: skip a response without a ticket; otherwise read
\* and parse updated_at, which raises when the field is absent or malformed,
\* build dir_path and ask whether it exists (only to log its creation).
Processed(p, w) ==
    /\ LET tid == TicketId(p)
       IN  IF ~HasTicket(w.response)
           THEN /\ worker' = [worker EXCEPT ![p] = NextTicket(w, p)]
                /\ outcome' = [outcome EXCEPT ![tid] =
                                  IF w.how = "returned" THEN "skipped" ELSE w.how]
           ELSE IF ParseRaises(w.response)
           THEN /\ worker' = [worker EXCEPT ![p] = Raise(w, "parse")]
                /\ outcome' = [outcome EXCEPT ![tid] = "parse_raised"]
           ELSE LET at == UpdatedAt(w.response)
                    dir_path == DirPath(ExportDir, at.year, at.month, at.day)
                IN  /\ worker' = [worker EXCEPT ![p] =
                                     [Queued EXCEPT !.pc = "mkdir", !.thread = w.thread,
                                                    !.client = w.client, !.pos = w.pos,
                                                    !.response = w.response,
                                                    !.dir_path = dir_path,
                                                    !.existed = dir_path \in dirs]]
                    /\ UNCHANGED outcome
    /\ UNCHANGED <<config, mainpc, exit_status, partitions, queue, collected, log,
                   dirs, files, reported>>

\* process_ticket goes on after fetch_ticket returned.
ProcessResponse(p) ==
    /\ p \in DOMAIN worker
    /\ worker[p].pc = "fetched"
    /\ Processed(p, worker[p])

\* Lines 75-79 and 29-31 in one step: fetch_ticket shares nothing with the
\* other workers, so the first step of process_ticket another worker can
\* tell apart is the question whether dir_path exists.
ProcessTicket(p) ==
    /\ p \in DOMAIN worker
    /\ worker[p].pc = "call"
    /\ worker[p].calls = 0
    /\ \E w \in FetchTicket(worker[p], TicketId(p)) : Processed(p, w)

\* The missing directories among dir_path and its parents.
MissingDirs(dir_path) == {a \in Ancestors(dir_path) : a \notin dirs}

\* The outermost of them: the one mkdir(parents=True) has to make first.
Outermost(paths) == CHOOSE a \in paths : \A b \in paths : Len(a) <= Len(b)

\* Only a directory seen missing at line 31 is created, without exist_ok:
\* finding it present afterwards is a FileExistsError.
MkdirExistingUnchecked(w) ==
    IF w.existed THEN [w EXCEPT !.pc = "save"] ELSE Raise(w, "exists")

\* Line 33 with exist_ok=True: a directory that is already there, whoever
\* made it and whenever, is not an error.
MkdirExisting(w) == [w EXCEPT !.pc = "save"]

\* Line 33, dir_path.mkdir(parents=True, exist_ok=True), one directory at a
\* time: each step makes the outermost missing directory, so other workers
\* can make directories in between; an OSError of a mkdir is not caught
\* anywhere below main.
CreateDirectoryStructure(p) ==
    /\ p \in DOMAIN worker
    /\ worker[p].pc = "mkdir"
    /\ LET w == worker[p]
           missing == MissingDirs(w.dir_path)
       IN  IF missing = {}
           THEN /\ worker' = [worker EXCEPT ![p] = MkdirExisting(w)]
                /\ UNCHANGED <<dirs, outcome>>
           ELSE \E ok \in BOOLEAN :
                  IF ok
                  THEN /\ dirs' = dirs \cup {Outermost(missing)}
                       /\ worker' = [worker EXCEPT ![p].pc =
                                        IF Outermost(missing) = w.dir_path
                                        THEN "save" ELSE "mkdir"]
                       /\ UNCHANGED outcome
                  ELSE /\ worker' = [worker EXCEPT ![p] = Raise(w, "mkdir")]
                       /\ outcome' = [outcome EXCEPT ![TicketId(p)] = "mkdir_raised"]
                       /\ UNCHANGED dirs
    /\ UNCHANGED <<config, mainpc, exit_status, partitions, queue, collected, log,
                   files, reported>>

\* Lines 86 and 37-46.  Without an id the f-string of line 40 raises KeyError
\* inside the try, and the handler's f-string of line 45 raises it again,
\* outside any try.  With an id: open fails (nothing changes), the dump
\* fails (the file stays truncated), or the text is written.
SaveTicket(p) ==
    /\ p \in DOMAIN worker
    /\ worker[p].pc = "save"
    /\ LET w == worker[p]
           tid == TicketId(p)
       IN  IF IdRaises(w.response)
           THEN /\ worker' = [worker EXCEPT ![p] = Raise(w, "save")]
                /\ outcome' = [outcome EXCEPT ![tid] = "save_raised"]
                /\ UNCHANGED files
           ELSE LET file_path == FilePath(w.dir_path, w.response)
                IN  /\ worker' = [worker EXCEPT ![p] = NextTicket(w, p)]
                    /\ \/ /\ files' = WriteFile(files, file_path, JsonText(w.response))
                          /\ outcome' = [outcome EXCEPT ![tid] = "saved"]
                       \/ /\ files' = TruncateFile(files, file_path)
                          /\ outcome' = [outcome EXCEPT ![tid] = "save_false"]
                       \/ /\ UNCHANGED files
                          /\ outcome' = [outcome EXCEPT ![tid] = "save_false"]
    /\ UNCHANGED <<config, mainpc, exit_status, partitions, queue, collected, log,
                   dirs, reported>>

\* ------------------------------------------------------ process_partition
\* A pool thread is free when no started, unfinished partition runs on it.
Busy(t) == \E q \in DOMAIN worker :
              worker[q].thread = t /\ worker[q].pc \notin {"queued", "done", "failed"}

FreeThreads == {t \in 1..number_partitions : ~Busy(t)}

\* The FreshPy objects built so far.
Constructed == {worker[q].client : q \in DOMAIN worker} \ {0}

\* One module-level client shared by every partition.
SharedClient(built) == 1

\* client = FreshPy(domain=domain, api_key=api_key), line 98: a new object.
NewClient(built) == Cardinality(built) + 1

\* Lines 97-100: a free pool thread takes the oldest queued partition,
\* builds its client and starts on its first id.  Threads are
\* interchangeable; the lowest free one is taken.
WorkerStart(p) ==
    /\ queue # << >>
    /\ p = Head(queue)
    /\ FreeThreads # {}
    /\ LET t == CHOOSE f \in FreeThreads : \A g \in FreeThreads : f <= g
       IN  worker' = [worker EXCEPT ![p] = [Queued EXCEPT !.pc = "call", !.thread = t,
                                                          !.client = NewClient(Constructed),
                                                          !.pos = 1]]
    /\ queue' = Tail(queue)
    /\ UNCHANGED <<config, mainpc, exit_status, partitions, collected, log, dirs,
                   files, outcome, reported>>

\* ------------------------------------------------------------------ main
\* Lines 113-115: export_dir.mkdir(parents=True, exist_ok=True); an OSError
\* is not caught and ends the process with a traceback (status 1).
MainSetup ==
    /\ mainpc = "setup"
    /\ \E ok \in BOOLEAN :
          IF ok
          THEN /\ mainpc' = "config"
               /\ dirs' = dirs \cup Ancestors(ExportDir)
               /\ UNCHANGED exit_status
          ELSE /\ mainpc' = "exited"
               /\ exit_status' = 1
               /\ UNCHANGED dirs
    /\ UNCHANGED <<config, partitions, queue, worker, collected, log, files,
                   outcome, reported>>

\* Lines 117-130: read the range, return on an empty range, else partition.
MainPartition ==
    /\ mainpc = "config"
    /\ IF AllTicketIds(start_ticket_id, end_ticket_id) = << >>
       THEN /\ mainpc' = "exited"
            /\ exit_status' = 0
            /\ UNCHANGED <<partitions, outcome>>
       ELSE /\ partitions' = Partition(start_ticket_id, end_ticket_id, number_partitions)
            /\ outcome' = [id \in start_ticket_id..end_ticket_id |-> "pending"]
            /\ mainpc' = "submit"
            /\ UNCHANGED exit_status
    /\ UNCHANGED <<config, queue, worker, collected, log, dirs, files, reported>>

\* Lines 136-147: every partition is submitted to the pool, in order.
MainSubmit ==
    /\ mainpc = "submit"
    /\ queue' = [p \in 1..Len(partitions) |-> p]
    /\ worker' = [p \in 1..Len(partitions) |-> Queued]
    /\ log' = [p \in 1..Len(partitions) |-> "none"]
    /\ mainpc' = "collect"
    /\ UNCHANGED <<config, exit_status, partitions, collected, dirs, files,
                   outcome, reported>>

\* future.result() outside any try: the worker's exception leaves main.
MainCollectReraise(p) ==
    /\ mainpc = "collect"
    /\ p \in DOMAIN worker
    /\ p \notin collected
    /\ worker[p].pc \in {"done", "failed"}
    /\ collected' = collected \cup {p}
    /\ IF worker[p].pc = "done"
       THEN /\ log' = [log EXCEPT ![p] = "completed"]
            /\ UNCHANGED <<mainpc, exit_status>>
       ELSE /\ mainpc' = "exited"
            /\ exit_status' = 1
            /\ UNCHANGED log
    /\ UNCHANGED <<config, partitions, queue, worker, dirs, files, outcome, reported>>

\* Lines 148-164: as_completed yields a finished future; result() returns
\* or re-raises, and either way main only logs.
MainCollect(p) ==
    /\ mainpc = "collect"
    /\ p \in DOMAIN worker
    /\ p \notin collected
    /\ worker[p].pc \in {"done", "failed"}
    /\ collected' = collected \cup {p}
    /\ log' = [log EXCEPT ![p] = IF worker[p].pc = "done" THEN "completed" ELSE "error"]
    /\ UNCHANGED <<config, mainpc, exit_status, partitions, queue, worker, dirs,
                   files, outcome, reported>>

\* A verification that does not wait for the pool.
MainVerifyEarly ==
    /\ mainpc = "collect"
    /\ LET exported_files == DOMAIN files
       IN  reported' = IF exported_files # {}
                       THEN [level |-> "info", count |-> Cardinality(exported_files)]
                       ELSE [level |-> "error", count |-> 0]
    /\ mainpc' = "exited"
    /\ exit_status' = 0
    /\ UNCHANGED <<config, partitions, queue, worker, collected, log, dirs, files,
                   outcome>>

\* A verification that turns an empty export into a failing exit.
MainVerifyStrict ==
    /\ mainpc = "collect"
    /\ collected = DOMAIN worker
    /\ LET exported_files == DOMAIN files
       IN  /\ reported' = IF exported_files # {}
                          THEN [level |-> "info", count |-> Cardinality(exported_files)]
                          ELSE [level |-> "error", count |-> 0]
           /\ exit_status' = IF exported_files # {} THEN 0 ELSE 1
    /\ mainpc' = "exited"
    /\ UNCHANGED <<config, partitions, queue, worker, collected, log, dirs, files,
                   outcome>>

\* Lines 166-171: all futures are collected and the pool is shut down; count
\* the *.json files under export_dir and log the summary; main returns.
MainVerify ==
    /\ mainpc = "collect"
    /\ collected = DOMAIN worker
    /\ LET exported_files == DOMAIN files
       IN  reported' = IF exported_files # {}
                       THEN [level |-> "info", count |-> Cardinality(exported_files)]
                       ELSE [level |-> "error", count |-> 0]
    /\ mainpc' = "exited"
    /\ exit_status' = 0
    /\ UNCHANGED <<config, partitions, queue, worker, collected, log, dirs, files,
                   outcome>>

\* -------------------------------------------------------- specifications
NoReport == [level |-> "none", count |-> 0]

InitCommon ==
    /\ mainpc = "setup"
    /\ exit_status = "running"
    /\ partitions = << >>
    /\ queue = << >>
    /\ worker = << >>
    /\ collected = {}
    /\ log = << >>
    /\ outcome = << >>
    /\ reported = NoReport

\* The export of an earlier run over the same range in which every ticket
\* was saved with the same update timestamp: ExportedFiles outlive a run.
EarlierTimestamp == "2024-03-05T10:00:00Z"

EarlierDir == LET at == FromIsoFormat(ReplaceZ(EarlierTimestamp))
              IN  DirPath(ExportDir, at.year, at.month, at.day)

EarlierFiles(start, end) ==
    LET doc(id) == TicketDoc(id, EarlierTimestamp)
        paths == {FilePath(EarlierDir, doc(id)) : id \in start..end}
    IN  [path \in paths |->
            LET id == CHOOSE k \in start..end : FilePath(EarlierDir, doc(k)) = path
            IN  <<JsonText(doc(id))>>]

\* The disk when main starts: empty, or holding an earlier export.
InitDisk ==
    \E rerun \in BOOLEAN :
       IF rerun /\ start_ticket_id <= end_ticket_id
       THEN /\ dirs = Ancestors(EarlierDir)
            /\ files = EarlierFiles(start_ticket_id, end_ticket_id)
       ELSE /\ dirs = {}
            /\ files = << >>

Init ==
    /\ start_ticket_id \in 1..MaxStart
    /\ end_ticket_id \in (start_ticket_id - 1)..(start_ticket_id + MaxLen - 1)
    /\ number_partitions \in 1..MaxN
    /\ InitDisk
    /\ InitCommon

\* NUMBER_PARTITIONS=1: one partition, one pool thread.
InitSerial ==
    /\ start_ticket_id \in 1..MaxStartS
    /\ end_ticket_id \in (start_ticket_id - 2)..(start_ticket_id + MaxLenS - 1)
    /\ number_partitions = 1
    /\ InitDisk
    /\ InitCommon

Next ==
    \/ MainSetup
    \/ MainPartition
    \/ MainSubmit
    \/ \E p \in DOMAIN worker : WorkerStart(p)
    \/ \E p \in DOMAIN worker : GetTicket(p)
    \/ \E p \in DOMAIN worker : Backoff(p)
    \/ \E p \in DOMAIN worker : ProcessResponse(p)
    \/ \E p \in DOMAIN worker : CreateDirectoryStructure(p)
    \/ \E p \in DOMAIN worker : SaveTicket(p)
    \/ \E p \in DOMAIN worker : MainCollect(p)
    \/ MainVerify

Spec == Init /\ [][Next]_vars

SpecSerial == InitSerial /\ [][Next]_vars

\* The concurrent run under fair scheduling.  The calls of the capability,
\* of time.sleep and of the file system return and the runtime lets runnable
\* threads run, so the program does not stand still while the main thread
\* or a pool thread can take a step.
FairSpec == Spec /\ WF_vars(Next)

InitPartition ==
    /\ start_ticket_id \in 1..MaxStartP
    /\ end_ticket_id \in (start_ticket_id - 1)..(start_ticket_id + MaxLenP - 1)
    /\ number_partitions \in 1..MaxNP
    /\ dirs = {}
    /\ files = << >>
    /\ InitCommon

NextPartition == MainSetup \/ MainPartition

SpecPartition == InitPartition /\ [][NextPartition]_vars

\* The pool seen from outside the workers: process_ticket up to its first
\* look at the disk is one step, so that a range the pool is too small for
\* stays in reach.  The export starts empty.
InitPool ==
    /\ start_ticket_id = 1
    /\ end_ticket_id \in 0..MaxLenPool
    /\ number_partitions \in 1..MaxNPool
    /\ dirs = {}
    /\ files = << >>
    /\ InitCommon

NextPool ==
    \/ MainSetup
    \/ MainPartition
    \/ MainSubmit
    \/ \E p \in DOMAIN worker : WorkerStart(p)
    \/ \E p \in DOMAIN worker : ProcessTicket(p)
    \/ \E p \in DOMAIN worker : CreateDirectoryStructure(p)
    \/ \E p \in DOMAIN worker : SaveTicket(p)
    \/ \E p \in DOMAIN worker : MainCollect(p)
    \/ MainVerify

SpecPool == InitPool /\ [][NextPool]_vars

\* ------------------------------------------------------------ partitions
Elems(seq) == {seq[k] : k \in 1..Len(seq)}

\* The partition list has been built (an empty range builds none).
PartitionsBuilt == mainpc \notin {"setup", "config"} /\ partitions # << >>

\* Every place <<p, k>> of the partition list.
Positions == UNION {{<<p, k>> : k \in DOMAIN partitions[p]} : p \in DOMAIN partitions}

\* C1: for end >= start and n >= 1 the partitions are pairwise disjoint,
\* their union is exactly start..end, every id lies in exactly one
\* partition, ids ascend inside each partition and the partitions come in
\* ascending order of their ids.
C1_PartitionsCoverRange ==
    PartitionsBuilt =>
        /\ \A p, q \in DOMAIN partitions :
              p # q => Elems(partitions[p]) \cap Elems(partitions[q]) = {}
        /\ UNION {Elems(partitions[p]) : p \in DOMAIN partitions}
              = start_ticket_id..end_ticket_id
        /\ \A id \in start_ticket_id..end_ticket_id :
              Cardinality({pk \in Positions : partitions[pk[1]][pk[2]] = id}) = 1
        /\ \A p \in DOMAIN partitions : \A j, k \in DOMAIN partitions[p] :
              j < k => partitions[p][j] < partitions[p][k]
        /\ \A p, q \in DOMAIN partitions : \A j \in DOMAIN partitions[p] :
              \A k \in DOMAIN partitions[q] :
                 p < q => partitions[p][j] < partitions[q][k]

\* C1 witness: a range cut into several partitions of several ids.
C1_Witness ==
    /\ PartitionsBuilt
    /\ Len(partitions) >= 3
    /\ Len(partitions[1]) >= 2
    /\ start_ticket_id > 1

\* C2: for end >= start and n >= 1 at most n partitions are produced.
C2_AtMostNPartitions ==
    PartitionsBuilt => Len(partitions) <= number_partitions

\* C3: with size = max(1, floor((end - start + 1) / n)) every partition but
\* the last has exactly size ids and the last has between 1 and size ids;
\* partition(1, 10, 3) has sizes 3,3,3,1 and partition(5, 5, 3) is [[5]].
C3_PartitionSizes ==
    PartitionsBuilt =>
        LET len == end_ticket_id - start_ticket_id + 1
            floor == CHOOSE q \in 0..len :
                        q * number_partitions <= len /\ len < (q + 1) * number_partitions
            size == IF floor >= 1 THEN floor ELSE 1
            last == Len(partitions)
        IN  /\ \A p \in 1..(last - 1) : Len(partitions[p]) = size
            /\ Len(partitions[last]) \in 1..size
            /\ (start_ticket_id = 1 /\ end_ticket_id = 10 /\ number_partitions = 3)
                  => [p \in DOMAIN partitions |-> Len(partitions[p])] = <<3, 3, 3, 1>>
            /\ (start_ticket_id = 5 /\ end_ticket_id = 5 /\ number_partitions = 3)
                  => partitions = << <<5>> >>

\* C3 witness: the range 1..10 cut for 3 partitions, with a short last one.
C3_Witness ==
    /\ PartitionsBuilt
    /\ start_ticket_id = 1 /\ end_ticket_id = 10 /\ number_partitions = 3
    /\ Len(partitions[Len(partitions)]) < Len(partitions[1])

\* ----------------------------------------------------------- fetch_ticket
\* C4: when every call of the capability for an id signals rate-limit,
\* fetch_ticket makes exactly 5 calls, then returns None, and the worker is
\* not left by an exception.
C4_AlwaysRateLimited ==
    \A p \in DOMAIN worker :
       LET w == worker[p]
       IN  (w.calls >= 1 /\ w.limited = w.calls) =>
              /\ w.pc \in {"call", "sleep", "fetched"}
              /\ w.calls <= 5
              /\ w.pc = "fetched" => (w.calls = 5 /\ w.response = NoneValue)
              /\ w.calls = 5 => w.pc \in {"sleep", "fetched"}

\* C4 witness: fetch_ticket has returned after five rate-limit signals.
C4_Witness ==
    \E p \in DOMAIN worker :
       /\ worker[p].pc = "fetched"
       /\ worker[p].limited = 5 /\ worker[p].calls = 5
       /\ worker[p].response = NoneValue

\* C5: when the k-th call is the first that is not a rate-limit signal and
\* returns a document, fetch_ticket returns exactly that document after
\* exactly k calls (1 <= k <= 5) and k-1 suspensions; a suspension only ever
\* follows a rate-limit signal, so a first-call document costs none.
C5_FirstDocumentReturned ==
    \A p \in DOMAIN worker :
       LET w == worker[p]
       IN  /\ w.pc = "sleep" => w.ft_response.status_code = 429
           /\ w.pc = "call" => (w.limited = w.calls /\ w.sleeps = w.calls)
           /\ (w.pc = "fetched" /\ w.how = "returned") =>
                 /\ w.response = w.ft_response
                 /\ w.response.status_code # 429
                 /\ w.calls \in 1..5
                 /\ w.limited = w.calls - 1
                 /\ w.sleeps = w.calls - 1

\* C5 witness: a document is returned by the third call, after two
\* suspensions.
C5_Witness ==
    \E p \in DOMAIN worker :
       /\ worker[p].pc = "fetched" /\ worker[p].how = "returned"
       /\ worker[p].response \in ValidDocs(TicketId(p))
       /\ worker[p].calls = 3 /\ worker[p].sleeps = 2

\* C6: when a call of the capability raises, on any attempt, fetch_ticket
\* returns None at once: the raising call is its last call for the id and no
\* suspension follows it.
C6_ExceptionReturnsNone ==
    \A p \in DOMAIN worker :
       LET w == worker[p]
       IN  /\ w.threw >= 1 =>
                 /\ w.threw = 1
                 /\ w.pc = "fetched"
                 /\ w.response = NoneValue
                 /\ w.calls = w.limited + 1
                 /\ w.sleeps = w.limited
           /\ \A k \in DOMAIN partitions[p] :
                 outcome[partitions[p][k]] = "raised" => (w.pos > k \/ w.pc = "done")

\* C6 witness: the capability raised on the third attempt for an id, after
\* two rate-limited attempts.
C6_Witness ==
    \E p \in DOMAIN worker :
       /\ worker[p].pc = "fetched" /\ worker[p].threw = 1
       /\ worker[p].calls = 3 /\ worker[p].sleeps = 2

\* ------------------------------------------------------------ the writer
\* The date bucket of each update timestamp, written out.
ExpectedBucket(ts) ==
    CASE ts = "2024-03-05T10:00:00Z" -> <<"2024", "March", "05">>
      [] ts = "2023-11-20T08:30:00+00:00" -> <<"2023", "November", "20">>

\* The file name of each id, written out.
ExpectedName(id) ==
    <<"1.json", "2.json", "3.json", "4.json", "5.json", "6.json", "7.json">>[id]

ExpectedPath(doc) ==
    <<"export">> \o ExpectedBucket(doc.ticket.updated_at) \o <<ExpectedName(doc.ticket.id)>>

\* The step in which save_ticket writes the document of worker p.
SavedBy(p) ==
    /\ worker[p].pc = "save"
    /\ outcome[TicketId(p)] = "pending"
    /\ outcome'[TicketId(p)] = "saved"

\* C7: saving a document whose update timestamp has year Y, month M, day D
\* writes <exportRoot>/Y/<MonthName(M)>/<DD>/<id>.json and nothing else, and
\* saving a document that was saved before is idempotent: the files and
\* their contents are what they were after the first save.
C7_SaveIsIdempotentOverwrite ==
    [][\A p \in DOMAIN worker :
          SavedBy(p) =>
             LET doc == worker[p].response
                 path == ExpectedPath(doc)
             IN  /\ DOMAIN files' = DOMAIN files \cup {path}
                 /\ files'[path] = <<JsonText(doc)>>
                 /\ \A q \in DOMAIN files \ {path} : files'[q] = files[q]
                 /\ (path \in DOMAIN files /\ files[path] = <<JsonText(doc)>>)
                       => (files' = files /\ dirs' = dirs)]_vars

\* C7 witness: on a disk holding an earlier export, a ticket has been saved
\* again with the same document while another is still to come, and the
\* files are those of the earlier export.
C7_Witness ==
    /\ PartitionsBuilt
    /\ files = EarlierFiles(start_ticket_id, end_ticket_id)
    /\ \E a, b \in DOMAIN outcome : outcome[a] = "saved" /\ outcome[b] = "pending"

\* The response carries an identifier and an ISO-8601 update timestamp.
WellFormed(r) ==
    r.kind = "dict" /\ r.ticket.present /\ r.ticket.id # 0
        /\ r.ticket.updated_at \in Timestamps

\* The response carries both required fields, whatever their content.
HasBothFields(r) ==
    r.kind = "dict" /\ r.ticket.present /\ r.ticket.id # 0
        /\ r.ticket.updated_at # Missing

\* C8: the date-bucketed save of a document that has an identifier and an
\* update timestamp never raises to the partition worker: a failure of the
\* directory creation or of the file write ends in the result false.
C8_SaveNeverRaises ==
    \A p \in DOMAIN worker :
       WellFormed(worker[p].response) => worker[p].pc # "failed"

\* C9: the writer is invoked only for a fetched document that has both
\* required fields; for None or a document lacking one of them the id is
\* skipped and no exception leaves its processing.
C9_SkipsIncompleteDocuments ==
    \A p \in DOMAIN worker :
       worker[p].pc \in {"mkdir", "save", "failed"} => HasBothFields(worker[p].response)

\* C10: an exception of the capability on one id does not stop the worker:
\* it is never the exception that leaves process_partition, the worker moves
\* on to the ids after it, and every id of the partition whose document was
\* fetched and written has its file, before and after the raising id.
C10_RaiseIsIsolated ==
    \A p \in DOMAIN worker :
       /\ worker[p].raised # "fetch"
       /\ \A k \in DOMAIN partitions[p] :
             LET id == partitions[p][k]
             IN  /\ outcome[id] = "raised" => (worker[p].pos > k \/ worker[p].pc = "done")
                 /\ outcome[id] = "saved" =>
                       \E ts \in Timestamps :
                          LET doc == TicketDoc(id, ts)
                          IN  /\ ExpectedPath(doc) \in DOMAIN files
                              /\ files[ExpectedPath(doc)] = <<JsonText(doc)>>

\* C10 witness: the capability raised on the middle id of three and the ids
\* before and after it were saved.
C10_Witness ==
    \E p \in DOMAIN worker :
       /\ Len(partitions[p]) = 3
       /\ outcome[partitions[p][1]] = "saved"
       /\ outcome[partitions[p][2]] = "raised"
       /\ outcome[partitions[p][3]] = "saved"
       /\ Cardinality(DOMAIN files) >= 2
\* ------------------------------------------------------------------- run
\* main's setup succeeded: it went past line 114, or the export root is there
\* after main ended.
SetupDone == mainpc \in {"config", "submit", "collect"} \/ ExportDir \in dirs

\* C11: with end < start no worker is launched, nothing is asked of the
\* capability, no file is written, nothing is verified, and main, once its
\* setup is done, ends with status 0.
C11_EmptyRangeDoesNothing ==
    end_ticket_id < start_ticket_id =>
       /\ partitions = << >>
       /\ queue = << >>
       /\ worker = << >>
       /\ files = << >>
       /\ reported = NoReport
       /\ mainpc \notin {"submit", "collect"}
       /\ (mainpc = "exited" /\ SetupDone => exit_status = 0)

C11_Witness ==
    /\ end_ticket_id < start_ticket_id - 1
    /\ mainpc = "exited"
    /\ SetupDone
    /\ exit_status = 0

\* Every id of partition p went through process_ticket.
AllProcessed(p) == \A k \in DOMAIN partitions[p] : outcome[partitions[p][k]] # "pending"

\* C12: an exception of one worker stops no other partition: a partition
\* waits in the queue exactly until a thread starts it, and when main ends
\* every partition was started and has ended, the failed ones are logged as
\* errors, and every partition that did not fail processed all its ids.
C12_FailureLeavesOthersRunning ==
    PartitionsBuilt /\ mainpc # "submit" =>
       /\ DOMAIN worker = DOMAIN partitions
       /\ \A p \in DOMAIN worker : worker[p].pc = "queued" <=> p \in Elems(queue)
       /\ mainpc = "exited" =>
             \A p \in DOMAIN worker :
                /\ worker[p].pc \in {"done", "failed"}
                /\ log[p] = (IF worker[p].pc = "failed" THEN "error" ELSE "completed")
                /\ worker[p].pc = "done" => AllProcessed(p)

\* A partition failed, and a later one that had to wait for the failed
\* one's thread ran to its end and saved its ticket.
C12_Witness ==
    /\ mainpc = "exited"
    /\ \E p, q \in DOMAIN worker :
          /\ p < q
          /\ worker[p].pc = "failed"
          /\ worker[q].pc = "done"
          /\ worker[q].thread = worker[p].thread
          /\ \A k \in DOMAIN partitions[q] : outcome[partitions[q][k]] = "saved"

\* C13: main ends with a nonzero status only out of its setup; once it is
\* past the setup it ends with status 0, whatever happened in the workers.
C13_ExitStatusZeroAfterSetup ==
    [][mainpc # "exited" /\ mainpc' = "exited" =>
          exit_status' = (IF mainpc = "setup" THEN 1 ELSE 0)]_vars

\* Every worker failed, nothing was exported, and main ended with status 0.
C13_Witness ==
    /\ mainpc = "exited"
    /\ exit_status = 0
    /\ worker # << >>
    /\ \A p \in DOMAIN worker : worker[p].pc = "failed"
    /\ reported.level = "error"

\* ----------------------------------------------------------------- retry
\* C14: a worker sleeps only after a rate-limit signal, for 5^i plus a
\* jitter below 5 seconds, and when the sleep returns it calls the
\* capability again for the same id.
C14_BackoffThenRetry ==
    [][\A p \in DOMAIN worker :
          worker[p].pc = "sleep" =>
             /\ IsRateLimit(worker[p].ft_response)
             /\ worker[p].threw = 0
             /\ worker[p].delay - Pow(5, worker[p].i) \in 0..4
             /\ worker'[p].pc # "sleep" =>
                   /\ worker'[p].pc = "call"
                   /\ worker'[p].pos = worker[p].pos]_vars

\* ------------------------------------------------------------- partition
\* The worker of partition p is inside process_ticket.
InTicket(p) == worker[p].pc \in {"call", "sleep", "fetched", "mkdir", "save"}

\* C15: a partition is walked one id at a time in the partitioner's order:
\* the worker is at one position of its list, every id before it went
\* through process_ticket, no id after it was touched, and the id at it is
\* untouched until process_ticket ends for it.
C15_PartitionIsSequential ==
    \A p \in DOMAIN worker :
       LET w == worker[p]
           ids == partitions[p]
           done(k) == outcome[ids[k]] # "pending"
       IN  CASE w.pc = "queued" -> \A k \in DOMAIN ids : ~done(k)
             [] w.pc = "done" -> w.pos = Len(ids) /\ \A k \in DOMAIN ids : done(k)
             [] OTHER ->
                  /\ w.pos \in DOMAIN ids
                  /\ \A k \in DOMAIN ids : k < w.pos => done(k)
                  /\ \A k \in DOMAIN ids : k > w.pos => ~done(k)
                  /\ InTicket(p) => ~done(w.pos)

\* The worker waits in a backoff for its second id of three: the first is
\* saved, the third untouched.
C15_Witness ==
    \E p \in DOMAIN worker :
       /\ Len(partitions[p]) = 3
       /\ worker[p].pc = "sleep"
       /\ worker[p].pos = 2
       /\ outcome[partitions[p][1]] = "saved"
       /\ outcome[partitions[p][3]] = "pending"

\* C16: a worker builds its client when it starts and keeps that one client
\* for every id and to its end; no two workers hold the same client.
C16_OneClientPerWorker ==
    [][/\ \A p \in DOMAIN worker' : worker'[p].pc = "queued" <=> worker'[p].client = 0
       /\ \A p, q \in DOMAIN worker' :
             p # q /\ worker'[p].client # 0 => worker'[p].client # worker'[q].client
       /\ \A p \in DOMAIN worker :
             worker[p].client # 0 => worker'[p].client = worker[p].client]_vars

\* Two workers are calling the capability at the same time, each with its
\* own client.
C16_Witness ==
    \E p, q \in DOMAIN worker :
       /\ p # q
       /\ worker[p].pc = "sleep"
       /\ worker[q].pc = "fetched"
       /\ worker[p].client # 0
       /\ worker[q].client # 0
       /\ worker[p].client # worker[q].client

\* ------------------------------------------------------------------ pool
\* The pool threads no partition ran on yet.
FreshThreads == {t \in 1..number_partitions : \A q \in DOMAIN worker : worker[q].thread # t}

\* C17: the pool has a worker of its own for every partition: for each
\* partition still waiting there is a pool thread that ran no partition yet,
\* so no partition has to wait for another one to end.
C17_OneThreadPerPartition ==
    mainpc = "collect" => Len(queue) <= Cardinality(FreshThreads)

\* C18: main ends a run over a non-empty range with the verification, and
\* the verification comes after the end of every worker: when its summary
\* is there every partition has ended and was collected, the summary gives
\* the number of files under the export root, and it is an error exactly
\* when that number is zero.
C18_VerifyAfterAllWorkers ==
    /\ PartitionsBuilt /\ mainpc = "exited" => reported # NoReport
    /\ reported # NoReport =>
          /\ PartitionsBuilt
          /\ collected = DOMAIN partitions
          /\ \A p \in DOMAIN partitions : worker[p].pc \in {"done", "failed"}
          /\ reported.count = Cardinality(DOMAIN files)
          /\ reported.level = (IF reported.count = 0 THEN "error" ELSE "info")

\* Two workers ran, one failed and one saved a ticket; the summary counts
\* the one file.
C18_Witness ==
    /\ reported = [level |-> "info", count |-> 1]
    /\ \E p, q \in DOMAIN worker :
          /\ worker[p].pc = "failed"
          /\ worker[q].pc = "done"
          /\ outcome[partitions[q][1]] = "saved"

\* ----------------------------------------------------------- directories
\* C19: no interleaving of the workers makes create_directory_structure fail
\* on a directory that is there: a worker about to make a directory that
\* exists by now, whoever made it, goes on to save its ticket, no worker
\* ever ends with a FileExistsError, and a worker that saves finds its
\* directory and all its parents on the disk.
C19_DirectoryRaceIsSafe ==
    [][\A p \in DOMAIN worker :
          /\ worker'[p].raised # "exists"
          /\ worker[p].pc = "mkdir" /\ worker[p].dir_path \in dirs /\ worker'[p] # worker[p]
                => worker'[p].pc = "save"
          /\ worker'[p].pc = "save" => Ancestors(worker'[p].dir_path) \subseteq dirs']_vars

\* Two workers found the same directory missing, one of them made it while
\* the other was between its check and its mkdir, and both are saving.
C19_Witness ==
    \E p, q \in DOMAIN worker :
       /\ p # q
       /\ worker[p].pc = "save"
       /\ worker[q].pc = "save"
       /\ worker[p].dir_path = worker[q].dir_path
       /\ ~worker[p].existed
       /\ ~worker[q].existed

\* ------------------------------------------------------------ termination
\* Every partition has ended.
AllEnded ==
    /\ DOMAIN worker = DOMAIN partitions
    /\ \A p \in DOMAIN worker : worker[p].pc \in {"done", "failed"}

\* Main has ended, and after a run over a non-empty range every partition
\* has ended and the verification summary is there.
Terminated ==
    /\ mainpc = "exited"
    /\ partitions # << >> => AllEnded /\ reported # NoReport

\* C20: under fair scheduling every run ends, whatever the capability
\* answers: no id ever costs more than 5 capability calls, and eventually
\* main has ended, with every worker finished or failed and the
\* verification summary given when the range was not empty.
C20_RunTerminates ==
    /\ [](\A p \in DOMAIN worker : worker[p].calls <= 5)
    /\ <>Terminated

\* Main gave its summary after a run of two workers in which one id used up
\* all attempts.
C20_Witness ==
    /\ reported # NoReport
    /\ Len(partitions) = 2
    /\ \E id \in DOMAIN outcome : outcome[id] = "exhausted"

====
